---- MODULE Spec2Model ----
(***************************************************************************)
(* porthouse OpenMCT front end: the WebSocket Connector (connector.js, the *)
(* variant with the outbound queue and the per-call deadline) and two of   *)
(* the telemetry providers that sit on top of it: housekeeping             *)
(* (HousekeepingPlugin.js) and events (EventsPlugin.js).                   *)
(*                                                                         *)
(* JavaScript runs every listener, timer callback and the promise          *)
(* reactions it triggers to completion before the next one starts, so each *)
(* listener / provider call / timer callback is one action.                *)
(***************************************************************************)
EXTENDS Integers, Sequences, FiniteSets

(***************************************************************************)
(* Bounds of the model                                                     *)
(***************************************************************************)
\* remoteCall invocations (values of rpc_id) explored
MaxRpc == 4
\* provider.request invocations explored
MaxReq == 2

(***************************************************************************)
(* Program constants                                                       *)
(***************************************************************************)
\* setTimeout(..., 50) of the housekeeping request
FlushDelayMs == 50

(***************************************************************************)
(* Input domains                                                           *)
(***************************************************************************)
\* presentation-layer consumers (one subscribe callback each)
Consumers == {"A", "B"}
\* satellite.subsystem prefixes of the telemetry keys
SubsKeys == {"sat.eps", "sat.obc"}
\* last component of the telemetry keys
Fields == {"temp", "volt"}
\* options objects handed to provider.request (start/end in epoch ms)
OptMinmax == [strategy |-> "minmax", start |-> 0, end |-> 2000, domain |-> "utc", size |-> 10]
OptMinmaxLater == [strategy |-> "minmax", start |-> 1000, end |-> 2000, domain |-> "utc", size |-> 10]
OptLatest == [strategy |-> "latest", start |-> 0, end |-> 2000, domain |-> "utc", size |-> 10]
\* (subsKey, field, options) of the provider.request calls explored
RequestInputs ==
    {<<"sat.eps", "temp", OptMinmax>>,
     <<"sat.eps", "volt", OptMinmaxLater>>,
     <<"sat.obc", "volt", OptLatest>>}
\* (satellite, field, options) of the provider.request calls of the measurements
\* plugin explored (the key of a measurement is satellite.field)
MeasInputs ==
    {<<"fs1", "rssi", OptMinmax>>,
     <<"fs1", "snr", OptMinmaxLater>>,
     <<"fs1", "snr", OptLatest>>}
\* services a push frame may name
Services == {"housekeeping", "events"}
\* the one key of the events service
EventsKey == "events"
\* subscription keys: housekeeping subsystems and the events key
AllKeys == SubsKeys \cup {EventsKey}
\* the service a subscription key belongs to
ServiceOf(k) == IF k = EventsKey THEN "events" ELSE "housekeeping"

\* "no value" (JavaScript undefined)
Undefined == "undefined"
\* reason of a promise rejected by an exception of the executor
TypeError == "TypeError"
\* what a request() that ends without a return statement returns: no promise
NoHandle == 0

(***************************************************************************)
(* JavaScript objects used as maps: functions with a growing domain        *)
(***************************************************************************)
EmptyObj == <<>>

\* key in obj
Has(obj, k) == k \in DOMAIN obj

\* obj[k] = v
Put(obj, k, v) == [x \in (DOMAIN obj) \cup {k} |-> IF x = k THEN v ELSE obj[x]]

\* delete obj[k]
Del(obj, k) == [x \in (DOMAIN obj) \ {k} |-> obj[x]]

\* some enumeration of a finite set (Object.keys / Object.entries order)
RECURSIVE SetToSeq(_)
SetToSeq(S) == IF S = {} THEN <<>>
               ELSE LET x == CHOOSE y \in S : TRUE IN <<x>> \o SetToSeq(S \ {x})

(***************************************************************************)
(* Date conversions used by the housekeeping provider                      *)
(***************************************************************************)
\* new Date(ms).toISOString()
ToISOString(ms) == CASE ms = 0    -> "1970-01-01T00:00:00.000Z"
                     [] ms = 1000 -> "1970-01-01T00:00:01.000Z"
                     [] ms = 2000 -> "1970-01-01T00:00:02.000Z"

\* new Date(iso).getTime()
DateGetTime(iso) == CASE iso = "1970-01-01T00:00:00.000Z" -> 0
                      [] iso = "1970-01-01T00:00:01.000Z" -> 1000
                      [] iso = "1970-01-01T00:00:02.000Z" -> 2000

(***************************************************************************)
(* State                                                                   *)
(***************************************************************************)
VARIABLES
    \* Connector
    socket,          \* "connecting" | "open" (socket.readyState) | "null" (this.socket = null)
    rpc_id,          \* this.rpc_id
    rpc_calls,       \* this.rpc_calls: id -> the reaction waiting on the call's promise
    timers,          \* ids whose setTimeout(reject, 500) is armed
    pending,         \* this.pending: ids of the frames queued while the socket was not open
    subscriptions,   \* this.subscriptions: service -> (key -> callback)
    \* housekeeping provider
    hkSubs,          \* subscriptions: subsKey -> (field -> consumer callback)
    buffered_promises, \* req_ident -> participants of the open group
    flushTimers,     \* armed setTimeout(..., 50) closures
    handles,         \* the promises returned by provider.request, in call order
    \* events provider
    subscribed,      \* its "subscribed" flag
    \* measurements provider
    measBuffered,    \* its buffered_promises: req_ident -> participants of the open group
    measTimers,      \* its armed setTimeout(..., 50) closures
    measReturned,    \* what each call of its request returned: the index of the promise
                     \* in handles, or NoHandle
    \* schema cache of the housekeeping provider
    schema,          \* its "schema": Null until the get_schema response was handled
    schemaPromise,   \* its "schemaPromise": NoId while null, else the id of the call
                     \* whose promise it was derived from with .then()
    schemaReturned,  \* what each call of getSchema returned, in call order
    \* presentation layer
    consumer,        \* per consumer: what it subscribed to and whether it still is
    \* observation
    calls,           \* every remoteCall made so far, by id: frame, route, promise state and
                     \* reaction; madeAt = number of requests made before it
    wire,            \* ids of the frames given to socket.send, in order
    openLog,         \* what the 'open' listener did: the registry and the queue it found,
                     \* the ids of its resubscribe calls, the ids it gave to socket.send
    trans,           \* per key: times the set of subscribed consumers became non-empty / empty
    last             \* what the last listener / provider call / timer callback did:
                     \* threw = it ended in an exception, deliveries = the consumer
                     \* callbacks it invoked, ignored = the id of the frame it found
                     \* no pending call for (NoId otherwise)

connVars == <<socket, rpc_id, rpc_calls, timers, pending, subscriptions>>
hkVars == <<hkSubs, buffered_promises, flushTimers, handles>>
evVars == <<subscribed>>
measVars == <<measBuffered, measTimers, measReturned>>
schemaVars == <<schema, schemaPromise, schemaReturned>>
obsVars == <<calls, wire, openLog, trans, last>>
vars == <<connVars, hkVars, evVars, measVars, schemaVars, consumer, obsVars>>

NoId == -1
\* the JavaScript value null
Null == "null"
Quiet == [threw |-> FALSE, deliveries |-> <<>>, ignored |-> NoId]
Threw == [threw |-> TRUE, deliveries |-> <<>>, ignored |-> NoId]

NoOpen == [happened |-> FALSE, registry |-> EmptyObj, consumers |-> 0, queued |-> <<>>,
           replay |-> <<>>, sent |-> <<>>]

Init ==
    /\ socket = "connecting"
    /\ rpc_id = 0
    /\ rpc_calls = EmptyObj
    /\ timers = {}
    /\ pending = <<>>
    /\ subscriptions = EmptyObj
    /\ hkSubs = EmptyObj
    /\ buffered_promises = EmptyObj
    /\ flushTimers = {}
    /\ handles = <<>>
    /\ subscribed = FALSE
    /\ measBuffered = EmptyObj
    /\ measTimers = {}
    /\ measReturned = <<>>
    /\ schema = Null
    /\ schemaPromise = NoId
    /\ schemaReturned = <<>>
    /\ consumer = [c \in Consumers |-> [state |-> "idle", subsKey |-> "", field |-> "", unsubs |-> 0]]
    /\ calls = <<>>
    /\ wire = <<>>
    /\ openLog = NoOpen
    /\ trans = [k \in AllKeys |-> [up |-> 0, down |-> 0]]
    /\ last = Quiet

(***************************************************************************)
(* Connector.remoteCall                                                    *)
(***************************************************************************)
\* the connector's RPC state threaded through the remoteCalls of one handler
Conn == [socket |-> socket, rpc_id |-> rpc_id, rpc_calls |-> rpc_calls, timers |-> timers,
         pending |-> pending, calls |-> calls, wire |-> wire]

NoCont == [kind |-> "none"]

\* the call record of id (ids start at 0, sequences at 1)
CallOf(cs, id) == cs.calls[id + 1]

\* a remoteCall that arms the deadline only for a frame it could send
RemoteCallNoDeadlineWhenQueued(cs, service, method, params, cont) ==
    LET id == cs.rpc_id
        frame == [id |-> id, service |-> service, method |-> method, params |-> params]
    IN  CASE cs.socket = "open" ->
               [cs EXCEPT !.rpc_id = id + 1,
                          !.wire = Append(@, id),
                          !.rpc_calls = Put(@, id, cont),
                          !.timers = @ \cup {id},
                          !.calls = Append(@, [frame |-> frame, route |-> "sent", cont |-> cont,
                                               state |-> "pending", reason |-> "",
                                               madeAt |-> Len(handles)])]
          [] cs.socket = "connecting" ->
               [cs EXCEPT !.rpc_id = id + 1,
                          !.pending = Append(@, id),
                          !.rpc_calls = Put(@, id, cont),
                          !.calls = Append(@, [frame |-> frame, route |-> "queued", cont |-> cont,
                                               state |-> "pending", reason |-> "",
                                               madeAt |-> Len(handles)])]
          [] cs.socket = "null" ->
               [cs EXCEPT !.rpc_id = id + 1,
                          !.calls = Append(@, [frame |-> frame, route |-> "none", cont |-> cont,
                                               state |-> "rejected", reason |-> TypeError,
                                               madeAt |-> Len(handles)])]

\* a remoteCall that reads this.rpc_id without incrementing it
RemoteCallReusingId(cs, service, method, params, cont) ==
    LET id == cs.rpc_id
        frame == [id |-> id, service |-> service, method |-> method, params |-> params]
    IN  CASE cs.socket = "open" ->
               [cs EXCEPT !.wire = Append(@, id),
                          !.rpc_calls = Put(@, id, cont),
                          !.timers = @ \cup {id},
                          !.calls = Append(@, [frame |-> frame, route |-> "sent", cont |-> cont,
                                               state |-> "pending", reason |-> "",
                                               madeAt |-> Len(handles)])]
          [] cs.socket = "connecting" ->
               [cs EXCEPT !.pending = Append(@, id),
                          !.rpc_calls = Put(@, id, cont),
                          !.timers = @ \cup {id},
                          !.calls = Append(@, [frame |-> frame, route |-> "queued", cont |-> cont,
                                               state |-> "pending", reason |-> "",
                                               madeAt |-> Len(handles)])]
          [] cs.socket = "null" ->
               [cs EXCEPT !.calls = Append(@, [frame |-> frame, route |-> "none", cont |-> cont,
                                               state |-> "rejected", reason |-> TypeError,
                                               madeAt |-> Len(handles)])]

\* a remoteCall that queues the frame whenever the socket is not open, also
\* after the 'close' listener has discarded the socket
RemoteCallQueueingAfterClose(cs, service, method, params, cont) ==
    LET id == cs.rpc_id
        frame == [id |-> id, service |-> service, method |-> method, params |-> params]
    IN  IF cs.socket = "open"
        THEN [cs EXCEPT !.rpc_id = id + 1,
                        !.wire = Append(@, id),
                        !.rpc_calls = Put(@, id, cont),
                        !.timers = @ \cup {id},
                        !.calls = Append(@, [frame |-> frame, route |-> "sent", cont |-> cont,
                                             state |-> "pending", reason |-> "",
                                             madeAt |-> Len(handles)])]
        ELSE [cs EXCEPT !.rpc_id = id + 1,
                        !.pending = Append(@, id),
                        !.rpc_calls = Put(@, id, cont),
                        !.timers = @ \cup {id},
                        !.calls = Append(@, [frame |-> frame, route |-> "queued", cont |-> cont,
                                             state |-> "pending", reason |-> "",
                                             madeAt |-> Len(handles)])]

\* remoteCall(service, method, params), the caller attaching reaction cont to
\* the returned promise. With this.socket = null the executor throws on
\* this.socket.readyState: the promise is rejected, nothing is sent, queued,
\* registered or armed.
RemoteCall(cs, service, method, params, cont) ==
    LET id == cs.rpc_id
        frame == [id |-> id, service |-> service, method |-> method, params |-> params]
    IN  CASE cs.socket = "open" ->
               [cs EXCEPT !.rpc_id = id + 1,
                          !.wire = Append(@, id),
                          !.rpc_calls = Put(@, id, cont),
                          !.timers = @ \cup {id},
                          !.calls = Append(@, [frame |-> frame, route |-> "sent", cont |-> cont,
                                               state |-> "pending", reason |-> "",
                                               madeAt |-> Len(handles)])]
          [] cs.socket = "connecting" ->
               [cs EXCEPT !.rpc_id = id + 1,
                          !.pending = Append(@, id),
                          !.rpc_calls = Put(@, id, cont),
                          !.timers = @ \cup {id},
                          !.calls = Append(@, [frame |-> frame, route |-> "queued", cont |-> cont,
                                               state |-> "pending", reason |-> "",
                                               madeAt |-> Len(handles)])]
          [] cs.socket = "null" ->
               [cs EXCEPT !.rpc_id = id + 1,
                          !.calls = Append(@, [frame |-> frame, route |-> "none", cont |-> cont,
                                               state |-> "rejected", reason |-> TypeError,
                                               madeAt |-> Len(handles)])]

\* write the threaded RPC state back
SetConn(cs) ==
    /\ rpc_id' = cs.rpc_id
    /\ rpc_calls' = cs.rpc_calls
    /\ timers' = cs.timers
    /\ pending' = cs.pending
    /\ calls' = cs.calls
    /\ wire' = cs.wire

(***************************************************************************)
(* Connector.subscribe / Connector.unsubscribe                             *)
(***************************************************************************)
\* the keys a subscribe / unsubscribe frame names
FrameKeys(frame) ==
    IF "fields" \in DOMAIN frame.params THEN {frame.params.fields}
    ELSE {frame.params.array[i] : i \in 1..Len(frame.params.array)}

\* this.subscriptions after subscribe(service, fields, callback), fields a string
SubscribeRegistry(subs, service, fields, callback) ==
    LET withService == IF Has(subs, service) THEN subs ELSE Put(subs, service, EmptyObj)
    IN  Put(withService, service, Put(withService[service], fields, callback))

\* this.subscriptions after unsubscribe(service, fields), fields a string
\* (callers below only unsubscribe services that were subscribed before)
UnsubscribeRegistry(subs, service, fields) ==
    Put(subs, service, Del(subs[service], fields))

\* Connector.subscribe(service, fields, callback)
ConnectorSubscribe(service, fields, callback) ==
    /\ SetConn(RemoteCall(Conn, service, "subscribe", [fields |-> fields], NoCont))
    /\ subscriptions' = SubscribeRegistry(subscriptions, service, fields, callback)

\* Connector.unsubscribe(service, fields)
ConnectorUnsubscribe(service, fields) ==
    /\ SetConn(RemoteCall(Conn, service, "unsubscribe", [fields |-> fields], NoCont))
    /\ subscriptions' = UnsubscribeRegistry(subscriptions, service, fields)

(***************************************************************************)
(* Housekeeping provider: subscribe and the unsubscribe closure it returns *)
(***************************************************************************)
\* consumers that subscribed to subsKey k and have not called their unsubscribe yet
LiveConsumers(cons, k) == {c \in Consumers : cons[c].state = "subscribed" /\ cons[c].subsKey = k}

\* transitions of the live consumer set of every subsKey between two states
CountTrans(before, after) ==
    [k \in AllKeys |->
        [up   |-> trans[k].up + (IF LiveConsumers(before, k) = {} /\ LiveConsumers(after, k) # {}
                                 THEN 1 ELSE 0),
         down |-> trans[k].down + (IF LiveConsumers(before, k) # {} /\ LiveConsumers(after, k) = {}
                                   THEN 1 ELSE 0)]]

\* subscriptions (of the provider) after "subscriptions[subsKey][field] = callback",
\* creating the subsystem entry first when it is missing
HkAddCallback(subs, subsKey, field, c) ==
    LET withKey == IF Has(subs, subsKey) THEN subs ELSE Put(subs, subsKey, EmptyObj)
    IN  Put(withKey, subsKey, Put(withKey[subsKey], field, c))

\* subscriptions after "delete subscriptions[subsKey][field]" and the removal of
\* the subsystem entry when no field is left
HkRemoveCallback(subs, subsKey, field) ==
    LET rest == Del(subs[subsKey], field)
    IN  IF DOMAIN rest = {} THEN Del(subs, subsKey) ELSE Put(subs, subsKey, rest)

\* provider.subscribe(domainObject, callback): consumer c subscribes to subsKey.field
HkSubscribe(c, subsKey, field) ==
    /\ consumer[c].state \in {"idle", "done"}
    /\ Has(hkSubs, subsKey) \/ rpc_id < MaxRpc
    /\ LET cons == [consumer EXCEPT ![c] = [state |-> "subscribed", subsKey |-> subsKey,
                                            field |-> field, unsubs |-> 0]]
       IN  /\ consumer' = cons
           /\ trans' = CountTrans(consumer, cons)
    /\ hkSubs' = HkAddCallback(hkSubs, subsKey, field, c)
    /\ IF ~Has(hkSubs, subsKey)
       THEN ConnectorSubscribe("housekeeping", subsKey, [plugin |-> "housekeeping"])
       ELSE UNCHANGED <<connVars, calls, wire>>
    /\ last' = Quiet
    /\ UNCHANGED <<socket, buffered_promises, flushTimers, handles, subscribed, measVars, schemaVars, openLog>>

\* the unsubscribe closure returned to consumer c (it may be called again later)
HkUnsubscribe(c) ==
    LET subsKey == consumer[c].subsKey
        field == consumer[c].field
        cons == [consumer EXCEPT ![c].state = "done",
                                 ![c].unsubs = IF @ < 2 THEN @ + 1 ELSE @]
    IN  /\ consumer[c].state \in {"subscribed", "done"}
        /\ subsKey \in SubsKeys
        /\ consumer' = cons
        /\ trans' = CountTrans(consumer, cons)
        /\ IF ~Has(hkSubs, subsKey)
           THEN \* delete subscriptions[subsKey][field] on undefined: TypeError
                /\ last' = Threw
                /\ UNCHANGED <<connVars, hkSubs, calls, wire>>
           ELSE /\ last' = Quiet
                /\ hkSubs' = HkRemoveCallback(hkSubs, subsKey, field)
                /\ IF ~Has(hkSubs', subsKey)
                   THEN /\ rpc_id < MaxRpc
                        /\ ConnectorUnsubscribe("housekeeping", subsKey)
                   ELSE UNCHANGED <<connVars, calls, wire>>
        /\ UNCHANGED <<socket, buffered_promises, flushTimers, handles, subscribed, measVars, schemaVars, openLog>>

(***************************************************************************)
(* Events provider: subscribe and the unsubscribe closure it returns       *)
(***************************************************************************)
\* provider.subscribe(domainObject, callback) of the events plugin
EvSubscribe(c) ==
    /\ consumer[c].state \in {"idle", "done"}
    /\ subscribed \/ rpc_id < MaxRpc
    /\ LET cons == [consumer EXCEPT ![c] = [state |-> "subscribed", subsKey |-> EventsKey,
                                            field |-> "", unsubs |-> 0]]
       IN  /\ consumer' = cons
           /\ trans' = CountTrans(consumer, cons)
    /\ IF ~subscribed
       THEN ConnectorSubscribe("events", EventsKey, [plugin |-> "events", consumer |-> c])
       ELSE UNCHANGED <<connVars, calls, wire>>
    /\ subscribed' = TRUE
    /\ last' = Quiet
    /\ UNCHANGED <<socket, hkVars, measVars, schemaVars, openLog>>

\* the unsubscribe closure the events plugin returned to consumer c
EvUnsubscribe(c) ==
    /\ consumer[c].state \in {"subscribed", "done"}
    /\ consumer[c].subsKey = EventsKey
    /\ rpc_id < MaxRpc
    /\ LET cons == [consumer EXCEPT ![c].state = "done",
                                    ![c].unsubs = IF @ < 2 THEN @ + 1 ELSE @]
       IN  /\ consumer' = cons
           /\ trans' = CountTrans(consumer, cons)
    /\ subscribed' = FALSE
    /\ ConnectorUnsubscribe("events", EventsKey)
    /\ last' = Quiet
    /\ UNCHANGED <<socket, hkVars, measVars, schemaVars, openLog>>

(***************************************************************************)
(* Connector.connect: the 'open' and 'close' listeners                     *)
(***************************************************************************)
\* the "Resubscribing" loop: one remoteCall per service of this.subscriptions,
\* its params the array Object.keys(this.subscriptions[service])
RECURSIVE Resubscribe(_, _, _)
Resubscribe(cs, subs, services) ==
    IF services = <<>> THEN cs
    ELSE Resubscribe(RemoteCall(cs, Head(services), "subscribe",
                                [array |-> SetToSeq(DOMAIN subs[Head(services)])], NoCont),
                     subs, Tail(services))

\* an 'open' listener that sends the queue and resubscribes nothing
OpenHandlerFlushOnly(cs, subs) ==
    [cs EXCEPT !.wire = @ \o cs.pending, !.pending = <<>>]

\* an 'open' listener that sends the newest queued frame first
OpenHandlerNewestFirst(cs, subs) ==
    Resubscribe([cs EXCEPT !.wire = @ \o [i \in 1..Len(cs.pending) |->
                                              cs.pending[Len(cs.pending) + 1 - i]],
                           !.pending = <<>>],
                subs, SetToSeq(DOMAIN subs))

\* the RPC state after the 'open' listener: the queued frames are sent in queue
\* order and the queue is emptied, then everything on the list is resubscribed
OpenHandler(cs, subs) ==
    Resubscribe([cs EXCEPT !.wire = @ \o cs.pending, !.pending = <<>>],
                subs, SetToSeq(DOMAIN subs))

\* number of (service, key) entries of the registry
LiveEntries(subs) ==
    Cardinality({<<s, k>> \in Services \X AllKeys : Has(subs, s) /\ Has(subs[s], k)})

\* 'open' event of the socket created by the constructor
SocketOpen ==
    /\ socket = "connecting"
    /\ rpc_id + Cardinality(DOMAIN subscriptions) <= MaxRpc
    /\ socket' = "open"
    /\ LET cs == OpenHandler([Conn EXCEPT !.socket = "open"], subscriptions)
       IN  /\ SetConn(cs)
           /\ openLog' = [happened |-> TRUE,
                          registry |-> subscriptions,
                          consumers |-> Cardinality({c \in Consumers : consumer[c].state = "subscribed"}),
                          queued |-> pending,
                          replay |-> [i \in 1..(cs.rpc_id - rpc_id) |-> rpc_id + i - 1],
                          sent |-> SubSeq(cs.wire, Len(wire) + 1, Len(cs.wire))]
    /\ last' = Quiet
    /\ UNCHANGED <<subscriptions, hkVars, evVars, measVars, schemaVars, consumer, trans>>

\* the 'close' listener of the older connector: this.subscriptions = { }
SocketCloseClearing ==
    /\ socket \in {"connecting", "open"}
    /\ socket' = "null"
    /\ subscriptions' = EmptyObj
    /\ last' = Quiet
    /\ UNCHANGED <<rpc_id, rpc_calls, timers, pending, hkVars, evVars, measVars, schemaVars, consumer,
                   calls, wire, openLog, trans>>

\* 'close' event: this.socket = null (the reconnect is commented out)
SocketClose ==
    /\ socket \in {"connecting", "open"}
    /\ socket' = "null"
    /\ last' = Quiet
    /\ UNCHANGED <<rpc_id, rpc_calls, timers, pending, subscriptions, hkVars, evVars, measVars, schemaVars, consumer,
                   calls, wire, openLog, trans>>

(***************************************************************************)
(* Promise settlement                                                      *)
(***************************************************************************)
\* an entry that carries the first column whatever the participant's field
UnrolledFirstColumn(subsKey, field, row) ==
    [id |-> subsKey \o "." \o field,
     timestamp |-> DateGetTime(row.timestamp),
     value |-> row.temp]

\* one entry of the array a participant of a housekeeping request is resolved with
Unrolled(subsKey, field, row) ==
    [id |-> subsKey \o "." \o field,
     timestamp |-> DateGetTime(row.timestamp),
     value |-> row[field]]

\* hk.map(data => ...) for one participant
UnrollFor(subsKey, field, hk) == [i \in 1..Len(hk) |-> Unrolled(subsKey, field, hk[i])]

\* a reaction that settles the first participant only
ReactFirstOnly(hs, cont, outcome) ==
    IF cont.kind = "hkRequest"
    THEN LET h == cont.promises[1].handle
         IN  [hs EXCEPT ![h] = IF outcome.ok
                               THEN [@ EXCEPT !.state = "resolved", !.times = @ + 1,
                                              !.value = UnrollFor(cont.subsKey, cont.promises[1].field,
                                                                  outcome.message.result.housekeeping)]
                               ELSE [@ EXCEPT !.state = "rejected", !.times = @ + 1,
                                              !.value = outcome.reason]]
    ELSE hs

\* a reaction whose failure branch rejects every request that is waiting
ReactRejectingAll(hs, cont, outcome) ==
    IF cont.kind = "hkRequest"
    THEN LET mine(h) == {i \in 1..Len(cont.promises) : cont.promises[i].handle = h}
             part(h) == cont.promises[CHOOSE i \in mine(h) : TRUE]
         IN  [h \in 1..Len(hs) |->
                IF outcome.ok
                THEN IF mine(h) = {} THEN hs[h]
                     ELSE [hs[h] EXCEPT !.state = "resolved", !.times = @ + 1,
                               !.value = UnrollFor(cont.subsKey, part(h).field,
                                                   outcome.message.result.housekeeping)]
                ELSE IF hs[h].state # "pending" THEN hs[h]
                     ELSE [hs[h] EXCEPT !.state = "rejected", !.times = @ + 1,
                                        !.value = outcome.reason]]
    ELSE hs

\* one entry of the array a participant of a measurements request is resolved with
UnrolledMeasurement(field, data) ==
    [id |-> "fs1p." \o field,
     timestamp |-> DateGetTime(data.utc),
     value |-> data[field]]

\* measurements.map(data => ...) for one participant
UnrollMeasurements(field, measurements) ==
    [i \in 1..Len(measurements) |-> UnrolledMeasurement(field, measurements[i])]

\* the member of response.result a provider reads
ResultMember(cont) == IF cont.kind = "hkRequest" THEN "housekeeping" ELSE "measurements"

\* the reaction the caller of remoteCall attached with .then(): the new handles.
\* outcome is [ok |-> TRUE, message |-> m] or [ok |-> FALSE, reason |-> r].
\* A response without the member the provider reads makes .map throw inside the
\* reaction: no participant is settled.
React(hs, cont, outcome) ==
    IF cont.kind \in {"hkRequest", "measRequest"}
    THEN LET mine(h) == {i \in 1..Len(cont.promises) : cont.promises[i].handle = h}
             part(h) == cont.promises[CHOOSE i \in mine(h) : TRUE]
         IN  [h \in 1..Len(hs) |->
                IF mine(h) = {} THEN hs[h]
                ELSE IF outcome.ok
                     THEN IF ~Has(outcome.message.result, ResultMember(cont)) THEN hs[h]
                          ELSE [hs[h] EXCEPT !.state = "resolved", !.times = @ + 1,
                                    !.value = IF cont.kind = "hkRequest"
                                              THEN UnrollFor(cont.subsKey, part(h).field,
                                                             outcome.message.result.housekeeping)
                                              ELSE UnrollMeasurements(part(h).field,
                                                             outcome.message.result.measurements)]
                     ELSE [hs[h] EXCEPT !.state = "rejected", !.times = @ + 1,
                                        !.value = outcome.reason]]
    ELSE hs

\* a promise that can be settled again and whose .finally() deletes nothing
SettleCallAgain(cs, id, outcome) ==
    [cs EXCEPT !.calls[id + 1].state = IF outcome.ok THEN "resolved" ELSE "rejected",
               !.calls[id + 1].reason = IF outcome.ok THEN "" ELSE outcome.reason]

\* a settlement without the .finally() that deletes this.rpc_calls[id]
SettleCallNoFinally(cs, id, outcome) ==
    IF CallOf(cs, id).state # "pending" THEN cs
    ELSE [cs EXCEPT !.calls[id + 1].state = IF outcome.ok THEN "resolved" ELSE "rejected",
                    !.calls[id + 1].reason = IF outcome.ok THEN "" ELSE outcome.reason]

\* resolve(message) / reject(reason) of call id, then the .finally() that
\* deletes this.rpc_calls[id]; a promise that is already settled stays as it is
SettleCall(cs, id, outcome) ==
    IF CallOf(cs, id).state # "pending" THEN cs
    ELSE [cs EXCEPT !.calls[id + 1].state = IF outcome.ok THEN "resolved" ELSE "rejected",
                    !.calls[id + 1].reason = IF outcome.ok THEN "" ELSE outcome.reason,
                    !.rpc_calls = Del(@, id)]

\* a listener that settles the call without clearTimeout(request.timeout)
ClearTimeoutSkipped(ts, id) == ts

\* clearTimeout(request.timeout)
ClearTimeout(ts, id) == ts \ {id}

\* the timer of remoteCall fires: setTimeout(reject, 500) calls reject()
RpcTimeout(id) ==
    /\ id \in timers
    /\ LET outcome == [ok |-> FALSE, reason |-> Undefined]
           cont == IF Has(rpc_calls, id) THEN rpc_calls[id] ELSE NoCont
       IN  /\ SetConn(SettleCall([Conn EXCEPT !.timers = @ \ {id}], id, outcome))
           /\ handles' = IF CallOf(Conn, id).state = "pending"
                         THEN React(handles, cont, outcome) ELSE handles
    /\ last' = Quiet
    /\ UNCHANGED <<socket, subscriptions, hkSubs, buffered_promises, flushTimers, evVars, measVars, schemaVars,
                   consumer, openLog, trans>>

(***************************************************************************)
(* Connector.connect: the 'message' listener                               *)
(***************************************************************************)
\* rows of a housekeeping history result
Row1 == [timestamp |-> "1970-01-01T00:00:01.000Z", temp |-> 11, volt |-> 21]
Row2 == [timestamp |-> "1970-01-01T00:00:02.000Z", temp |-> 12, volt |-> 22]
\* result.housekeeping of the responses explored
RowSets == {<<Row1, Row2>>}

\* event.data of the inbound frames explored: text that is no JSON (text), the
\* JSON text of a value that is no object, such as null or 42 (prim), or the
\* JSON text of an object (json, written as the object)
PushFrames ==
    {[json |-> [subscription |-> [service |-> s, subsystem |-> k, timestamp |-> 1000,
                                  data |-> [temp |-> 11, volt |-> 21],
                                  events |-> <<"event 1">>]]] :
        s \in Services, k \in AllKeys}
\* (ids: those of the calls made so far and the next, not yet issued one)
ErrorFrame(i) == [json |-> [error |-> [code |-> -500, message |-> "boom"], id |-> i]]
ErrorFrameNoId == [json |-> [error |-> [code |-> -500, message |-> "boom"]]]
ErrorFrames == {ErrorFrame(i) : i \in 0..rpc_id} \cup {ErrorFrameNoId}
ResponseFrame(i, rs) == [json |-> [id |-> i, result |-> [housekeeping |-> rs]]]
ResponseFrames == {ResponseFrame(i, rs) : i \in 0..rpc_id, rs \in RowSets}
\* result.measurements of the responses to the calls of the measurements plugin
MeasRows == <<[utc |-> "1970-01-01T00:00:01.000Z", rssi |-> 31, snr |-> 41]>>
MeasResponseFrame(i) == [json |-> [id |-> i, result |-> [measurements |-> MeasRows]]]
MeasResponseFrames == {MeasResponseFrame(i) : i \in 0..rpc_id}
\* result.schema of the responses to get_schema
Schemas == {"schemaA", "schemaB"}
SchemaResponseFrame(i, s) == [json |-> [id |-> i, result |-> [schema |-> s]]]
SchemaResponseFrames == {SchemaResponseFrame(i, s) : i \in 0..rpc_id, s \in Schemas}
OtherFrames == {[text |-> "{not json"], [prim |-> "null"], [json |-> [hello |-> "world"]]}
\* the frame objects that carry no id and no subscription
FramesWithoutId == {ErrorFrameNoId, [json |-> [hello |-> "world"]]}
Inbound == PushFrames \cup ErrorFrames \cup ResponseFrames \cup MeasResponseFrames
               \cup SchemaResponseFrames \cup OtherFrames

\* the reaction getSchema attaches with .then(): data => { schema =
\* data.result.schema; return schema; }. It has no rejection handler, so a
\* rejected call leaves schema as it is; a response without "result" makes the
\* reaction throw before the assignment.
SchemaThen(cont, outcome) ==
    IF cont.kind = "getSchema" /\ outcome.ok /\ Has(outcome.message, "result")
    THEN IF Has(outcome.message.result, "schema") THEN outcome.message.result.schema
         ELSE Undefined
    ELSE schema

\* subscriptionReceived of the housekeeping provider: the callbacks it invokes
SubscriptionReceived(subs, subscription) ==
    LET entry == subs[subscription.subsystem]
        fields == SetToSeq(DOMAIN entry)
    IN  [i \in 1..Len(fields) |->
            [consumer |-> entry[fields[i]],
             payload |-> [id |-> subscription.subsystem \o "." \o fields[i],
                          timestamp |-> subscription.timestamp,
                          value |-> subscription.data[fields[i]]]]]

\* subscriptionReturnCallback of the events provider, bound to the callback of
\* the consumer whose subscribe registered it
SubscriptionReturnCallback(c, subscription) ==
    <<[consumer |-> c, payload |-> subscription.events]>>

\* 'message' event with event.data = ev
OnMessage(ev) ==
    /\ socket = "open"
    /\ IF Has(ev, "text")
       THEN \* JSON.parse throws: return
            /\ last' = Quiet
            /\ UNCHANGED <<rpc_id, rpc_calls, timers, pending, calls, wire, handles>>
       ELSE IF Has(ev, "prim")
       THEN \* "subscription" in message, message no object: TypeError
            /\ last' = Threw
            /\ UNCHANGED <<rpc_id, rpc_calls, timers, pending, calls, wire, handles>>
       ELSE LET message == ev.json IN
            IF Has(message, "subscription")
            THEN LET subscription == message.subscription IN
                 /\ UNCHANGED <<rpc_id, rpc_calls, timers, pending, calls, wire, handles>>
                 /\ IF ~Has(subscriptions, subscription.service)
                    THEN \* this.subscriptions[service] is undefined: TypeError
                         last' = Threw
                    ELSE IF ~Has(subscriptions[subscription.service], subscription.subsystem)
                    THEN last' = Quiet
                    ELSE LET callback == subscriptions[subscription.service][subscription.subsystem] IN
                         IF callback.plugin = "events"
                         THEN last' = [Quiet EXCEPT !.deliveries =
                                                      SubscriptionReturnCallback(callback.consumer, subscription)]
                         ELSE IF ~Has(hkSubs, subscription.subsystem)
                         THEN \* Object.entries(undefined): TypeError
                              last' = Threw
                         ELSE last' = [Quiet EXCEPT !.deliveries =
                                                      SubscriptionReceived(hkSubs, subscription)]
            ELSE IF Has(message, "error")
            THEN IF Has(message, "id") /\ Has(rpc_calls, message.id)
                 THEN LET outcome == [ok |-> FALSE,
                                      reason |-> "WebSocket error: " \o message.error.message]
                      IN  /\ SetConn(SettleCall([Conn EXCEPT !.timers = ClearTimeout(@, message.id)],
                                                message.id, outcome))
                          /\ handles' = IF CallOf(Conn, message.id).state = "pending"
                                        THEN React(handles, rpc_calls[message.id], outcome)
                                        ELSE handles
                          /\ last' = Quiet
                 ELSE /\ last' = [Quiet EXCEPT !.ignored = IF Has(message, "id") THEN message.id ELSE NoId]
                      /\ UNCHANGED <<rpc_id, rpc_calls, timers, pending, calls, wire, handles>>
            ELSE IF Has(message, "id")
            THEN IF Has(rpc_calls, message.id)
                 THEN LET outcome == [ok |-> TRUE, message |-> message]
                      IN  /\ SetConn(SettleCall([Conn EXCEPT !.timers = ClearTimeout(@, message.id)],
                                                message.id, outcome))
                          /\ handles' = IF CallOf(Conn, message.id).state = "pending"
                                        THEN React(handles, rpc_calls[message.id], outcome)
                                        ELSE handles
                          /\ last' = Quiet
                 ELSE /\ last' = [Quiet EXCEPT !.ignored = message.id]
                      /\ UNCHANGED <<rpc_id, rpc_calls, timers, pending, calls, wire, handles>>
            ELSE /\ last' = Quiet
                 /\ UNCHANGED <<rpc_id, rpc_calls, timers, pending, calls, wire, handles>>
    /\ schema' = IF /\ Has(ev, "json")
                     /\ ~Has(ev.json, "subscription")
                     /\ ~Has(ev.json, "error")
                     /\ Has(ev.json, "id")
                     /\ Has(rpc_calls, ev.json.id)
                     /\ CallOf(Conn, ev.json.id).state = "pending"
                  THEN SchemaThen(rpc_calls[ev.json.id], [ok |-> TRUE, message |-> ev.json])
                  ELSE schema
    /\ UNCHANGED <<socket, subscriptions, hkSubs, buffered_promises, flushTimers, evVars, measVars,
                   schemaPromise, schemaReturned, consumer, openLog, trans>>

(***************************************************************************)
(* Housekeeping provider: request and its flush timer                      *)
(***************************************************************************)
\* req_ident = subsKey + "_" + options.strategy
ReqIdent(subsKey, options) == subsKey \o "_" \o options.strategy

\* a request() that starts the participant list anew on every call
JoinGroupAlone(bp, req_ident, field, options, h) ==
    Put(bp, req_ident, <<[field |-> field, options |-> options, handle |-> h]>>)

\* a request() that adds the participant to every open group as well
JoinGroupEverywhere(bp, req_ident, field, options, h) ==
    LET withGroup == IF Has(bp, req_ident) THEN bp ELSE Put(bp, req_ident, <<>>)
    IN  [k \in DOMAIN withGroup |->
            Append(withGroup[k], [field |-> field, options |-> options, handle |-> h])]

\* buffered_promises after request() has run for handle h
JoinGroup(bp, req_ident, field, options, h) ==
    LET withGroup == IF Has(bp, req_ident) THEN bp ELSE Put(bp, req_ident, <<>>)
    IN  Put(withGroup, req_ident,
            Append(withGroup[req_ident], [field |-> field, options |-> options, handle |-> h]))

\* a request() that arms a timer on every call
ArmFlushAlways(ts, bp, req_ident, subsKey, options, h) ==
    ts \cup {[req_ident |-> req_ident, subsKey |-> subsKey, options |-> options,
              delay |-> FlushDelayMs, armedBy |-> h]}

\* a request() that replaces the timer of the group by a new one on every call
ArmFlushReset(ts, bp, req_ident, subsKey, options, h) ==
    {t \in ts : t.req_ident # req_ident}
        \cup {[req_ident |-> req_ident, subsKey |-> subsKey, options |-> options,
                delay |-> FlushDelayMs, armedBy |-> h]}

\* the timers armed after request(): a new one only when the group is new
ArmFlush(ts, bp, req_ident, subsKey, options, h) ==
    IF Has(bp, req_ident) THEN ts
    ELSE ts \cup {[req_ident |-> req_ident, subsKey |-> subsKey, options |-> options,
                   delay |-> FlushDelayMs, armedBy |-> h]}

\* provider.request(domainObject, options) for the key subsKey.field
HkRequest(subsKey, field, options) ==
    /\ Len(handles) < MaxReq
    /\ LET req_ident == ReqIdent(subsKey, options)
           h == Len(handles) + 1
       IN  /\ flushTimers' = ArmFlush(flushTimers, buffered_promises, req_ident, subsKey, options, h)
           /\ buffered_promises' = JoinGroup(buffered_promises, req_ident, field, options, h)
           /\ handles' = Append(handles, [subsKey |-> subsKey, field |-> field, options |-> options,
                                          state |-> "pending", times |-> 0, value |-> ""])
    /\ last' = Quiet
    /\ UNCHANGED <<connVars, hkSubs, evVars, measVars, schemaVars, consumer, calls, wire, openLog, trans>>

\* a flush that leaves the group in buffered_promises
TakeGroupKept(bp, req_ident) == bp

\* buffered_promises after "delete buffered_promises[req_ident]"
TakeGroup(bp, req_ident) == Del(bp, req_ident)

\* params of the grouped call
RequestParams(subsKey, promises, options) ==
    [subsystem |-> subsKey,
     fields |-> [i \in 1..Len(promises) |-> promises[i].field],
     options |-> [start |-> ToISOString(options.start),
                  end |-> ToISOString(options.end),
                  domain |-> options.domain,
                  size |-> options.size]]

\* the setTimeout callback of a group fires
FlushTimer(t) ==
    /\ t \in flushTimers
    /\ rpc_id < MaxRpc
    /\ flushTimers' = flushTimers \ {t}
    /\ LET promises == buffered_promises[t.req_ident]
           cont == [kind |-> "hkRequest", subsKey |-> t.subsKey, promises |-> promises]
           cs == RemoteCall(Conn, "housekeeping", "request",
                            RequestParams(t.subsKey, promises, t.options), cont)
       IN  /\ buffered_promises' = TakeGroup(buffered_promises, t.req_ident)
           /\ SetConn(cs)
           /\ handles' = IF CallOf(cs, rpc_id).state = "rejected"
                         THEN React(handles, cont, [ok |-> FALSE, reason |-> CallOf(cs, rpc_id).reason])
                         ELSE handles
    /\ last' = Quiet
    /\ UNCHANGED <<socket, subscriptions, hkSubs, evVars, measVars, schemaVars, consumer, openLog, trans>>

(***************************************************************************)
(* Measurements provider: request and its flush timer                      *)
(***************************************************************************)
\* req_ident = "measurements" + "_" + options.strategy
MeasReqIdent(options) == "measurements" \o "_" \o options.strategy

\* provider.request(domainObject, options) of the measurements plugin for the key
\* satellite.field. The group is created, its timer armed and the promise made
\* and returned inside "if (!(req_ident in buffered_promises))"; when the group
\* exists the function ends without a return statement.
MeasRequest(satellite, field, options) ==
    /\ Len(measReturned) < MaxReq
    /\ Len(handles) < MaxReq
    /\ LET req_ident == MeasReqIdent(options)
           h == Len(handles) + 1
       IN  IF ~Has(measBuffered, req_ident)
           THEN /\ measBuffered' = Put(measBuffered, req_ident,
                                       <<[field |-> field, options |-> options, handle |-> h]>>)
                /\ measTimers' = measTimers \cup
                                     {[req_ident |-> req_ident, satellite |-> satellite,
                                       options |-> options, delay |-> FlushDelayMs, armedBy |-> h]}
                /\ handles' = Append(handles, [subsKey |-> satellite, field |-> field,
                                               options |-> options, state |-> "pending",
                                               times |-> 0, value |-> ""])
                /\ measReturned' = Append(measReturned, h)
           ELSE /\ measReturned' = Append(measReturned, NoHandle)
                /\ UNCHANGED <<measBuffered, measTimers, handles>>
    /\ last' = Quiet
    /\ UNCHANGED <<connVars, hkSubs, buffered_promises, flushTimers, evVars, schemaVars,
                   consumer, calls, wire, openLog, trans>>

\* params of the grouped call of the measurements plugin
MeasParams(satellite, promises, options) ==
    [fields |-> [i \in 1..Len(promises) |-> promises[i].field],
     satellite |-> satellite,
     options |-> [start |-> ToISOString(options.start),
                  end |-> ToISOString(options.end),
                  strategy |-> options.strategy,
                  domain |-> options.domain,
                  size |-> options.size]]

\* the setTimeout callback of a group of the measurements plugin fires
MeasFlushTimer(t) ==
    /\ t \in measTimers
    /\ rpc_id < MaxRpc
    /\ measTimers' = measTimers \ {t}
    /\ LET promises == measBuffered[t.req_ident]
           cont == [kind |-> "measRequest", subsKey |-> t.satellite, promises |-> promises]
           cs == RemoteCall(Conn, "measurements", "history",
                            MeasParams(t.satellite, promises, t.options), cont)
       IN  /\ measBuffered' = Del(measBuffered, t.req_ident)
           /\ SetConn(cs)
           /\ handles' = IF CallOf(cs, rpc_id).state = "rejected"
                         THEN React(handles, cont, [ok |-> FALSE, reason |-> CallOf(cs, rpc_id).reason])
                         ELSE handles
    /\ measReturned' = measReturned
    /\ last' = Quiet
    /\ UNCHANGED <<socket, subscriptions, hkSubs, buffered_promises, flushTimers, evVars,
                   schemaVars, consumer, openLog, trans>>

(***************************************************************************)
(* Housekeeping provider: getSchema                                        *)
(***************************************************************************)
\* what a call of getSchema returned
ReturnedNothing == [kind |-> "undefined", value |-> Undefined]
ReturnedSchemaPromise == [kind |-> "schemaPromise", value |-> Undefined]
ReturnedResolved(s) == [kind |-> "resolved", value |-> s]

\* getSchema(): Promise.resolve(schema) once the schema is cached, the stored
\* schemaPromise while the download is under way; otherwise it starts the
\* download, stores the derived promise and ends without a return statement.
\* remoteCall is given no params: the frame carries none.
GetSchema ==
    /\ Len(schemaReturned) < MaxRpc
    /\ IF schema # Null
       THEN /\ schemaReturned' = Append(schemaReturned, ReturnedResolved(schema))
            /\ UNCHANGED <<rpc_id, rpc_calls, timers, pending, calls, wire, schemaPromise>>
       ELSE IF schemaPromise # NoId
       THEN /\ schemaReturned' = Append(schemaReturned, ReturnedSchemaPromise)
            /\ UNCHANGED <<rpc_id, rpc_calls, timers, pending, calls, wire, schemaPromise>>
       ELSE /\ rpc_id < MaxRpc
            /\ SetConn(RemoteCall(Conn, "housekeeping", "get_schema", EmptyObj,
                                  [kind |-> "getSchema"]))
            /\ schemaPromise' = rpc_id
            /\ schemaReturned' = Append(schemaReturned, ReturnedNothing)
    /\ last' = Quiet
    /\ UNCHANGED <<socket, subscriptions, schema, hkVars, evVars, measVars, consumer, openLog,
                   trans>>

(***************************************************************************)
(* Specification                                                           *)
(***************************************************************************)
\* everything
Next ==
    \/ \E c \in Consumers, k \in SubsKeys, f \in Fields : HkSubscribe(c, k, f)
    \/ \E c \in Consumers : HkUnsubscribe(c)
    \/ \E c \in Consumers : EvSubscribe(c)
    \/ \E c \in Consumers : EvUnsubscribe(c)
    \/ \E r \in RequestInputs : HkRequest(r[1], r[2], r[3])
    \/ \E t \in flushTimers : FlushTimer(t)
    \/ \E r \in MeasInputs : MeasRequest(r[1], r[2], r[3])
    \/ \E t \in measTimers : MeasFlushTimer(t)
    \/ GetSchema
    \/ \E id \in timers : RpcTimeout(id)
    \/ \E ev \in Inbound : OnMessage(ev)
    \/ SocketOpen
    \/ SocketClose

Spec == Init /\ [][Next]_vars

\* the subscription side: consumers, pushes and the socket
NextSub ==
    \/ \E c \in Consumers, k \in SubsKeys, f \in Fields : HkSubscribe(c, k, f)
    \/ \E c \in Consumers : HkUnsubscribe(c)
    \/ \E c \in Consumers : EvSubscribe(c)
    \/ \E c \in Consumers : EvUnsubscribe(c)
    \/ \E ev \in PushFrames \cup OtherFrames : OnMessage(ev)
    \/ SocketOpen
    \/ SocketClose

SpecSub == Init /\ [][NextSub]_vars

\* the request side: coalesced requests, the calls they make and the socket
NextReq ==
    \/ \E r \in RequestInputs : HkRequest(r[1], r[2], r[3])
    \/ \E t \in flushTimers : FlushTimer(t)
    \/ \E id \in timers : RpcTimeout(id)
    \/ \E ev \in ErrorFrames \cup ResponseFrames \cup FramesWithoutId : OnMessage(ev)
    \/ SocketOpen
    \/ SocketClose

SpecReq == Init /\ [][NextReq]_vars

\* the calls of one telemetry point, with the timers of the browser: a deadline
\* that is armed fires unless it is cleared (nothing is assumed about the socket
\* or the backend, which may stay silent for ever)
NextCall ==
    \/ \E r \in {<<"sat.eps", "temp", OptMinmax>>} : HkRequest(r[1], r[2], r[3])
    \/ \E t \in flushTimers : FlushTimer(t)
    \/ \E id \in timers : RpcTimeout(id)
    \/ \E ev \in ErrorFrames \cup ResponseFrames : OnMessage(ev)
    \/ SocketOpen
    \/ SocketClose

SpecCall == Init /\ [][NextCall]_vars /\ \A id \in 0..(MaxRpc - 1) : WF_vars(RpcTimeout(id))

\* the coalescing of the requests of both providers: requests, the flush timers
\* and the socket (the calls made by the flushes stay unanswered)
NextGroup ==
    \/ \E r \in RequestInputs : HkRequest(r[1], r[2], r[3])
    \/ \E t \in flushTimers : FlushTimer(t)
    \/ \E r \in MeasInputs : MeasRequest(r[1], r[2], r[3])
    \/ \E t \in measTimers : MeasFlushTimer(t)
    \/ SocketOpen
    \/ SocketClose

SpecGroup == Init /\ [][NextGroup]_vars

\* the requests of the measurements provider, the calls they make and the socket
NextMeas ==
    \/ \E r \in MeasInputs : MeasRequest(r[1], r[2], r[3])
    \/ \E t \in measTimers : MeasFlushTimer(t)
    \/ \E id \in timers : RpcTimeout(id)
    \/ \E ev \in ErrorFrames \cup MeasResponseFrames : OnMessage(ev)
    \/ SocketOpen
    \/ SocketClose

SpecMeas == Init /\ [][NextMeas]_vars

\* the schema cache: getSchema, the call it makes, its answers and the socket
NextSchema ==
    \/ GetSchema
    \/ \E id \in timers : RpcTimeout(id)
    \/ \E ev \in ErrorFrames \cup SchemaResponseFrames : OnMessage(ev)
    \/ SocketOpen
    \/ SocketClose

SpecSchema == Init /\ [][NextSchema]_vars

\* subscriptions and requests made while the socket connects, then the 'open'
NextMix ==
    \/ \E c \in Consumers, k \in SubsKeys, f \in Fields : HkSubscribe(c, k, f)
    \/ \E r \in RequestInputs : HkRequest(r[1], r[2], r[3])
    \/ \E t \in flushTimers : FlushTimer(t)
    \/ SocketOpen
    \/ SocketClose

SpecMix == Init /\ [][NextMix]_vars

(***************************************************************************)
(* Subscription reference counting (C1, C2)                                *)
(***************************************************************************)
\* remoteCalls made by Connector.subscribe / Connector.unsubscribe for key k
\* (the replay of the 'open' listener passes an array and is not counted)
Issued(method, k) ==
    {i \in 1..Len(calls) : /\ calls[i].frame.service = ServiceOf(k)
                           /\ calls[i].frame.method = method
                           /\ "array" \notin DOMAIN calls[i].frame.params
                           /\ calls[i].frame.params.fields = k}

\* C1 (as claimed): for every key, the subscribe frames issued so far are as many
\* as the times its set of subscribed consumers became non-empty, and the
\* unsubscribe frames as many as the times it became empty.
C1_FramesMatchTransitions ==
    \A k \in AllKeys :
        /\ Cardinality(Issued("subscribe", k)) = trans[k].up
        /\ Cardinality(Issued("unsubscribe", k)) = trans[k].down

\* a push for consumer c's key would reach c's callback: the connector holds the
\* entry of the key and the provider routes it to c
Served(subs, hk, cons, c) ==
    LET k == cons[c].subsKey
        service == ServiceOf(k)
    IN  /\ Has(subs, service)
        /\ Has(subs[service], k)
        /\ IF k = EventsKey
           THEN subs[service][k].consumer = c
           ELSE /\ Has(hk, k)
                /\ Has(hk[k], cons[c].field)
                /\ hk[k][cons[c].field] = c

\* C2 (as claimed): when one of two consumers subscribed to the same key
\* unsubscribes, no unsubscribe frame is issued and a push for the key still
\* reaches the remaining consumer; an unsubscribe frame is issued only by the step
\* in which the last subscribed consumer of the key unsubscribes.
C2_SharedKeyKeepsSubscription ==
    [][\A k \in AllKeys :
          LET before == LiveConsumers(consumer, k)
              after == LiveConsumers(consumer', k)
          IN  /\ (Cardinality(before) = 2 /\ Cardinality(after) = 1)
                    => /\ Issued("unsubscribe", k)' = Issued("unsubscribe", k)
                       /\ \A c \in after : Served(subscriptions', hkSubs', consumer', c)
              /\ (Issued("unsubscribe", k)' # Issued("unsubscribe", k))
                    => (before # {} /\ after = {})]_vars

(***************************************************************************)
(* Replay of the registry by the 'open' listener (C3, C4, C5)              *)
(***************************************************************************)
\* the (service, key) entries of a registry
Entries(subs) == {<<s, k>> \in Services \X AllKeys : Has(subs, s) /\ Has(subs[s], k)}

\* the (service, key) pairs named by the resubscribe call id
Named(id) == {<<calls[id + 1].frame.service, k>> : k \in FrameKeys(calls[id + 1].frame)}

\* the ids of the resubscribe calls of the 'open' listener
ReplayIds == {openLog.replay[i] : i \in 1..Len(openLog.replay)}

\* position of id in the frames the 'open' listener gave to socket.send
SentAt(id) == CHOOSE i \in 1..Len(openLog.sent) : openLog.sent[i] = id

C4_ReplayBeforeQueued ==
    openLog.happened =>
        \A id \in ReplayIds :
            \A i \in 1..Len(openLog.queued) :
                calls[openLog.queued[i] + 1].frame.method = "request"
                    => SentAt(id) < SentAt(openLog.queued[i])

RequestCalls == {i \in 1..Len(calls) : calls[i].frame.method = "request"}

\* the handles a grouped call will settle
Participants(i) == {calls[i].cont.promises[j].handle : j \in 1..Len(calls[i].cont.promises)}

\* the handles waiting in the open group k
Buffered(k) == {buffered_promises[k][j].handle : j \in 1..Len(buffered_promises[k])}

\* the grouped calls handle h takes part in, the open groups it waits in
CallsOf(h) == {i \in RequestCalls : h \in Participants(i)}
GroupsOf(h) == {k \in DOMAIN buffered_promises : h \in Buffered(k)}

\* the grouping key of the request that returned handle h
IdentOf(h) == ReqIdent(handles[h].subsKey, handles[h].options)

\* C6: every request waits in one open group or takes part in exactly one
\* outbound call, never both and never two calls; and requests with the same
\* grouping key made from the first of a group up to its flush all take part in
\* the one call of that flush.
C6_OneCallPerGroup ==
    /\ \A h \in 1..Len(handles) : Cardinality(CallsOf(h)) + Cardinality(GroupsOf(h)) = 1
    /\ \A i \in RequestCalls :
          \A h1 \in Participants(i) :
              \A h2 \in 1..Len(handles) :
                  (IdentOf(h1) = IdentOf(h2) /\ h1 <= h2 /\ h2 <= calls[i].madeAt)
                      => CallsOf(h2) = {i}

\* two requests were coalesced into the only outbound call made
C6_Witness ==
    /\ Len(handles) >= 2
    /\ Cardinality(RequestCalls) = 1
    /\ \E i \in RequestCalls : Cardinality(Participants(i)) >= 2

\* C7: a resolved handle holds one entry per row of the result, each with the id
\* subsKey.field of its own request, the row's time and the row's value of its
\* own field, and it was resolved once; handles of different keys hold different
\* results.
C7_OwnSlice ==
    /\ \A h \in 1..Len(handles) :
          handles[h].state = "resolved" =>
              /\ handles[h].times = 1
              /\ Len(handles[h].value) = 2
              /\ \A j \in 1..2 :
                    /\ handles[h].value[j].id = handles[h].subsKey \o "." \o handles[h].field
                    /\ handles[h].value[j].timestamp = j * 1000
                    /\ handles[h].value[j].value = <<Row1, Row2>>[j][handles[h].field]
    /\ \A h1, h2 \in 1..Len(handles) :
          (/\ handles[h1].state = "resolved"
           /\ handles[h2].state = "resolved"
           /\ handles[h1].field # handles[h2].field)
              => handles[h1].value # handles[h2].value

\* one call resolved two participants that asked for different fields
C7_Witness ==
    \E i \in RequestCalls :
        \E h1, h2 \in Participants(i) :
            /\ handles[h1].field # handles[h2].field
            /\ handles[h1].state = "resolved"
            /\ handles[h2].state = "resolved"

\* C8 (as claimed): the fields of a grouped call are the fields of its
\* participants, each of them once.
C8_FieldsAreUnion ==
    \A i \in RequestCalls :
        LET fields == calls[i].frame.params.fields
            promises == calls[i].cont.promises
        IN  /\ {fields[j] : j \in 1..Len(fields)} = {promises[j].field : j \in 1..Len(promises)}
            /\ \A j1, j2 \in 1..Len(fields) : j1 # j2 => fields[j1] # fields[j2]

\* C9: nobody takes part in a grouped call who asked after its flush; an open
\* group has its own armed timer, set by its first participant, and all its
\* participants asked after every earlier flush of the same grouping key; so a
\* request after the flush waits in a new group or takes part in another call.
C9_FlushedGroupFrozen ==
    /\ \A i \in RequestCalls : \A h \in Participants(i) : h <= calls[i].madeAt
    /\ \A k \in DOMAIN buffered_promises :
          /\ buffered_promises[k] # <<>>
          /\ Cardinality({t \in flushTimers : t.req_ident = k}) = 1
          /\ \A t \in flushTimers :
                t.req_ident = k => /\ t.armedBy = buffered_promises[k][1].handle
                                   /\ t.delay = FlushDelayMs
          /\ \A h \in Buffered(k) :
                /\ IdentOf(h) = k
                /\ \A i \in RequestCalls :
                      (\E p \in Participants(i) : IdentOf(p) = k) => h > calls[i].madeAt
    /\ \A t \in flushTimers : Has(buffered_promises, t.req_ident)
    /\ \A h \in 1..Len(handles) :
          \A i \in RequestCalls :
              (h > calls[i].madeAt /\ GroupsOf(h) = {}) => \E j \in CallsOf(h) : j > i

\* a request with the grouping key of a flushed group, made while that group's
\* call was unanswered, led to a second outbound call
C9_Witness ==
    \E i, j \in RequestCalls :
        /\ i < j
        /\ calls[i].state = "pending"
        /\ \E h1 \in Participants(i), h2 \in Participants(j) :
              /\ IdentOf(h1) = IdentOf(h2)
              /\ h2 > calls[i].madeAt

(***************************************************************************)
(* The deadline of a call (C10)                                            *)
(***************************************************************************)
\* the call id was rejected by its timer (the only rejection without a reason)
TimedOut(id) == calls[id + 1].state = "rejected" /\ calls[id + 1].reason = Undefined

\* the handles call id settles
HandlesOf(id) == IF calls[id + 1].cont.kind = "hkRequest" THEN Participants(id + 1) ELSE {}

\* C10: when the timer of an unanswered call fires, the call is rejected (with no
\* reason value), its entry leaves rpc_calls and its handles are rejected; from
\* then on the call and its handles stay as they are, and a frame carrying its id
\* changes neither rpc_calls nor any handle nor any call.
C10_TimeoutThenIgnored ==
    [][/\ \A id \in timers :
             (RpcTimeout(id) /\ calls[id + 1].state = "pending")
                 => /\ calls'[id + 1].state = "rejected"
                    /\ calls'[id + 1].reason = Undefined
                    /\ ~Has(rpc_calls', id)
                    /\ \A h \in HandlesOf(id) : handles'[h].state = "rejected"
       /\ \A id \in 0..(Len(calls) - 1) :
             TimedOut(id)
                 => /\ ~Has(rpc_calls, id)
                    /\ ~Has(rpc_calls', id)
                    /\ calls'[id + 1] = calls[id + 1]
                    /\ \A h \in HandlesOf(id) : handles'[h] = handles[h]
                    /\ \A ev \in ErrorFrames \cup ResponseFrames :
                          (last'.ignored = id /\ Has(ev.json, "id") /\ ev.json.id = id /\ OnMessage(ev))
                              => /\ rpc_calls' = rpc_calls
                                 /\ handles' = handles
                                 /\ calls' = calls
                                 /\ timers' = timers]_vars

\* a response arrived for a grouped call that had timed out, and found no entry
C10_Witness ==
    /\ last.ignored # NoId
    /\ last.ignored < Len(calls)
    /\ TimedOut(last.ignored)
    /\ calls[last.ignored + 1].route = "sent"
    /\ HandlesOf(last.ignored) # {}
    /\ \A h \in HandlesOf(last.ignored) :
          /\ handles[h].state = "rejected"
          /\ handles[h].times = 1
          /\ handles[h].value = Undefined

(***************************************************************************)
(* One completion per call (C11)                                           *)
(***************************************************************************)
\* the call id went from pending to settled in this step
Settles(id) == calls[id + 1].state = "pending" /\ calls'[id + 1].state # "pending"

\* C11: a call that is settled stays exactly as it is, and so do the handles it
\* settled, whatever frame or timer for its id comes later; the step that settles
\* a pending call gives it the outcome of the event of that step (resolved by a
\* response frame, rejected with the frame's message by an error frame, rejected
\* without reason by the deadline); no handle is completed twice.
C11_CompletedOnce ==
    [][/\ \A id \in 0..(Len(calls) - 1) :
             /\ calls[id + 1].state # "pending"
                    => /\ calls'[id + 1] = calls[id + 1]
                       /\ \A h \in HandlesOf(id) : handles'[h] = handles[h]
             /\ Settles(id)
                    => /\ RpcTimeout(id) => (calls'[id + 1].state = "rejected"
                                             /\ calls'[id + 1].reason = Undefined)
                       /\ \A ev \in ResponseFrames :
                             (ev.json.id = id /\ OnMessage(ev))
                                 => /\ calls'[id + 1].state = "resolved"
                                    /\ \A h \in HandlesOf(id) : handles'[h].state = "resolved"
                       /\ \A ev \in ErrorFrames :
                             (Has(ev.json, "id") /\ ev.json.id = id /\ OnMessage(ev))
                                 => /\ calls'[id + 1].state = "rejected"
                                    /\ calls'[id + 1].reason = "WebSocket error: boom"
                                    /\ \A h \in HandlesOf(id) : handles'[h].state = "rejected"
       /\ \A h \in 1..Len(handles) : handles'[h].times <= 1]_vars

\* a frame for the id of a call already resolved by an earlier response arrived,
\* and the call's handles are still resolved, completed once
C11_Witness ==
    /\ last.ignored # NoId
    /\ last.ignored < Len(calls)
    /\ calls[last.ignored + 1].state = "resolved"
    /\ HandlesOf(last.ignored) # {}
    /\ \A h \in HandlesOf(last.ignored) : handles[h].state = "resolved" /\ handles[h].times = 1

(***************************************************************************)
(* Failure of a grouped call (C12)                                         *)
(***************************************************************************)
\* C12: when the call of a group is rejected (by an error frame, by its deadline
\* or because the socket is gone), every participant's handle is rejected, once,
\* with the reason the call was rejected with.
C12_AllRejectedAlike ==
    \A i \in RequestCalls :
        calls[i].state = "rejected" =>
            \A h \in Participants(i) :
                /\ handles[h].state = "rejected"
                /\ handles[h].times = 1
                /\ handles[h].value = calls[i].reason

\* an error frame rejected the call of a group of two
C12_Witness ==
    \E i \in RequestCalls :
        /\ calls[i].state = "rejected"
        /\ calls[i].reason = "WebSocket error: boom"
        /\ Cardinality(Participants(i)) = 2
        /\ \A h \in Participants(i) : handles[h].value = "WebSocket error: boom"

(***************************************************************************)
(* Options of a grouped call (C13)                                         *)
(***************************************************************************)
\* C13 (as claimed): the subsystem and the options (start, end, domain, size) a
\* grouped call carries are those every one of its participants passed to
\* request.
C13_OptionsOfEveryParticipant ==
    \A i \in RequestCalls :
        \A h \in Participants(i) :
            LET sent == calls[i].frame.params
            IN  /\ sent.subsystem = handles[h].subsKey
                /\ DateGetTime(sent.options.start) = handles[h].options.start
                /\ DateGetTime(sent.options.end) = handles[h].options.end
                /\ sent.options.domain = handles[h].options.domain
                /\ sent.options.size = handles[h].options.size

(***************************************************************************)
(* Inbound data that is no frame (C14)                                     *)
(***************************************************************************)
\* event.data that does not parse as a frame object
Malformed == {ev \in OtherFrames : ~Has(ev, "json")}

\* C14 (as claimed): the 'message' listener drops inbound data that does not
\* parse as a frame: it ends without exception, invokes no consumer, settles no
\* call and leaves rpc_calls, the registry and the queue as they are.
C14_MalformedDropped ==
    [][\A ev \in Malformed :
          OnMessage(ev) => /\ ~last'.threw
                           /\ last'.deliveries = <<>>
                           /\ calls' = calls
                           /\ handles' = handles
                           /\ rpc_calls' = rpc_calls
                           /\ subscriptions' = subscriptions
                           /\ pending' = pending]_vars

(***************************************************************************)
(* Pushes nobody is registered for (C15)                                   *)
(***************************************************************************)
\* the registry holds a callback for the (service, key) of the push
Registered(subs, subscription) ==
    /\ Has(subs, subscription.service)
    /\ Has(subs[subscription.service], subscription.subsystem)

\* C15 (as claimed): a push frame for a (service, key) without a registered
\* callback is dropped: the 'message' listener ends without exception and invokes
\* no consumer.
C15_UnregisteredPushDropped ==
    [][\A ev \in PushFrames :
          (~Registered(subscriptions, ev.json.subscription) /\ OnMessage(ev))
              => /\ ~last'.threw
                 /\ last'.deliveries = <<>>]_vars

(***************************************************************************)
(* Frames for no pending call (C16)                                        *)
(***************************************************************************)
\* no call with this id is waiting: it was never issued, or it is settled
Unknown(id) == id >= Len(calls) \/ calls[id + 1].state # "pending"


\* the 'message' listener ended without exception, invoked no consumer, settled
\* no call and no handle, and left rpc_calls, the timers and the registry alone
Ignored ==
    /\ ~last'.threw
    /\ last'.deliveries = <<>>
    /\ handles' = handles
    /\ calls' = calls
    /\ rpc_calls' = rpc_calls
    /\ timers' = timers
    /\ subscriptions' = subscriptions

\* C16: a response or error frame whose id belongs to no waiting call (never
\* issued, or already resolved, rejected or expired) finds no entry in rpc_calls,
\* and such a frame, like a frame without id and without subscription, is ignored:
\* the listener ends without exception, invokes no consumer, settles no call and
\* no handle, and leaves rpc_calls, the timers and the registry as they are.
C16_UnknownIdIgnored ==
    [][socket = "open" =>
          /\ \A id \in 0..rpc_id :
                Unknown(id) =>
                    /\ ~Has(rpc_calls, id)
                    /\ OnMessage(ErrorFrame(id)) => (Ignored /\ last'.ignored = id)
                    /\ \A rs \in RowSets :
                          OnMessage(ResponseFrame(id, rs)) => (Ignored /\ last'.ignored = id)
          /\ \A ev \in FramesWithoutId : OnMessage(ev) => Ignored]_vars

\* a frame with an id that was never issued arrived while a call was waiting,
\* and the call is still waiting
C16_Witness ==
    /\ last.ignored # NoId
    /\ last.ignored >= Len(calls)
    /\ \E id \in DOMAIN rpc_calls : calls[id + 1].state = "pending" /\ id \in timers

(***************************************************************************)
(* Every call completes (C17)                                              *)
(***************************************************************************)
\* C17: a call that is waiting has its deadline armed, whether its frame was sent
\* or queued, and every call made is eventually settled, whatever the socket and
\* the backend do.
C17_EveryCallCompletes ==
    /\ [](\A id \in 0..(Len(calls) - 1) :
             calls[id + 1].state = "pending" => (id \in timers /\ Has(rpc_calls, id)))
    /\ \A id \in 0..(MaxRpc - 1) :
          (Len(calls) > id) ~> (Len(calls) > id /\ calls[id + 1].state # "pending")

\* the deadline rejected a call whose frame is still in the queue of a socket
\* that never opened
C17_Witness ==
    /\ socket = "connecting"
    /\ \E i \in 1..Len(pending) :
          /\ calls[pending[i] + 1].route = "queued"
          /\ TimedOut(pending[i])
          /\ \A h \in HandlesOf(pending[i]) : handles[h].state = "rejected"

(***************************************************************************)
(* The queue is flushed on open (C18)                                      *)
(***************************************************************************)
\* number of times the frame of call id was given to socket.send
TimesSent(w, id) == Cardinality({j \in 1..Len(w) : w[j] = id})

\* C18: a frame that remoteCall queued is not sent while the socket is connecting;
\* the 'open' listener gives the queued frames to socket.send first, in the order
\* of the queue, each once, and leaves the queue empty; a socket that is open has
\* an empty queue.
C18_QueueFlushedInOrder ==
    [][/\ socket = "connecting" => \A i \in 1..Len(pending) : TimesSent(wire, pending[i]) = 0
       /\ socket = "open" => pending = <<>>
       /\ SocketOpen =>
             /\ pending' = <<>>
             /\ SubSeq(wire', Len(wire) + 1, Len(wire) + Len(pending)) = pending
             /\ \A i \in 1..Len(pending) : TimesSent(wire', pending[i]) = 1]_vars

\* the 'open' listener found two frames in the queue, sent them and emptied it
C18_Witness ==
    /\ openLog.happened
    /\ Len(openLog.queued) = 2
    /\ SubSeq(openLog.sent, 1, 2) = openLog.queued
    /\ openLog.queued[1] < openLog.queued[2]
    /\ socket = "open"
    /\ pending = <<>>

(***************************************************************************)
(* A failed call fails alone (C19)                                         *)
(***************************************************************************)
\* this step rejects the waiting call id (by an error frame or by its deadline)
Fails(id) == calls[id + 1].state = "pending" /\ calls'[id + 1].state = "rejected"

\* C19: a step that rejects one waiting call rejects the handles of that call and
\* nothing else: every other call keeps its record, its entry in rpc_calls and its
\* armed deadline, every handle of another call or of an open group is as before,
\* the open groups and their flush timers are as before, and so are the registry,
\* the callback tables, the queue and the socket.
C19_FailureStaysLocal ==
    [][\A id \in 0..(Len(calls) - 1) :
          Fails(id) =>
              /\ \A other \in (0..(Len(calls) - 1)) \ {id} :
                    /\ calls'[other + 1] = calls[other + 1]
                    /\ Has(rpc_calls, other) =>
                          (Has(rpc_calls', other) /\ rpc_calls'[other] = rpc_calls[other])
                    /\ other \in timers => other \in timers'
              /\ \A h \in (1..Len(handles)) \ HandlesOf(id) : handles'[h] = handles[h]
              /\ \A h \in HandlesOf(id) : handles'[h].state = "rejected"
              /\ Len(calls') = Len(calls)
              /\ Len(handles') = Len(handles)
              /\ buffered_promises' = buffered_promises
              /\ flushTimers' = flushTimers
              /\ subscriptions' = subscriptions
              /\ hkSubs' = hkSubs
              /\ pending' = pending
              /\ socket' = socket]_vars

\* a call failed on an error frame while an older call was waiting, and the older
\* call still waits with its deadline armed and its handle pending
C19_Witness ==
    \E id \in 0..(Len(calls) - 1) :
        /\ calls[id + 1].state = "rejected"
        /\ calls[id + 1].reason = "WebSocket error: boom"
        /\ \A h \in HandlesOf(id) : handles[h].state = "rejected"
        /\ \E other \in 0..(id - 1) :
              /\ calls[other + 1].state = "pending"
              /\ Has(rpc_calls, other)
              /\ other \in timers
              /\ HandlesOf(other) # {}
              /\ \A h \in HandlesOf(other) : handles[h].state = "pending"

(***************************************************************************)
(* Reconnection after a close (C20)                                        *)
(***************************************************************************)
\* C20 (as claimed): if an 'open' event that can happen does happen, every close
\* is eventually followed by an open socket.
C20_ReopensAfterClose ==
    WF_vars(SocketOpen) => ((socket = "null") ~> (socket = "open"))

(***************************************************************************)
(* Call ids (C21)                                                          *)
(***************************************************************************)
\* the calls that wait under id in rpc_calls
Outstanding(id) == {i \in 1..Len(calls) : calls[i].frame.id = id /\ calls[i].state = "pending"}

\* C21: every remoteCall, whoever makes it (subscribe, unsubscribe, the replay of
\* the 'open' listener), takes an id greater than every id taken before and
\* smaller than the counter, so each id of rpc_calls belongs to exactly one
\* waiting call.
C21_IdsIncrease ==
    /\ \A i, j \in 1..Len(calls) : i < j => calls[i].frame.id < calls[j].frame.id
    /\ \A i \in 1..Len(calls) : calls[i].frame.id < rpc_id
    /\ \A id \in DOMAIN rpc_calls : Cardinality(Outstanding(id)) = 1

\* a subscribe, an unsubscribe and a replay call were made, and two calls wait
C21_Witness ==
    /\ \E i, j \in 1..Len(calls) :
          /\ calls[i].frame.method = "subscribe" /\ calls[i].route = "queued"
          /\ calls[j].frame.method = "unsubscribe"
    /\ ReplayIds # {}
    /\ Cardinality(DOMAIN rpc_calls) >= 2

(***************************************************************************)
(* Error frames (C22)                                                      *)
(***************************************************************************)
\* C22: an error frame whose id is in rpc_calls rejects that call with
\* "WebSocket error: " followed by the message of the frame, clears its deadline
\* and removes its entry from rpc_calls; the handles of the call are rejected with
\* the same value and the listener does not throw.
C22_ErrorFrameRejects ==
    [][\A id \in DOMAIN rpc_calls :
          OnMessage(ErrorFrame(id)) =>
              /\ calls'[id + 1].state = "rejected"
              /\ calls'[id + 1].reason = "WebSocket error: " \o ErrorFrame(id).json.error.message
              /\ ~Has(rpc_calls', id)
              /\ id \notin timers'
              /\ \A h \in HandlesOf(id) :
                    /\ handles'[h].state = "rejected"
                    /\ handles'[h].value = calls'[id + 1].reason
              /\ ~last'.threw]_vars

\* a call whose frame waited in the queue was rejected by an error frame
C22_Witness ==
    \E id \in 0..(Len(calls) - 1) :
        /\ calls[id + 1].route = "queued"
        /\ calls[id + 1].state = "rejected"
        /\ calls[id + 1].reason = "WebSocket error: boom"
        /\ ~Has(rpc_calls, id)
        /\ id \notin timers
        /\ HandlesOf(id) # {}
        /\ \A h \in HandlesOf(id) : handles[h].value = "WebSocket error: boom"

(***************************************************************************)
(* Dispatch of a push to the consumers of its key (C23)                    *)
(***************************************************************************)
\* number of times the callback of consumer c was called by one 'message' event
Invoked(deliveries, c) == Cardinality({i \in 1..Len(deliveries) : deliveries[i].consumer = c})

\* C23 (as claimed): a push for (service, key) calls the callback of every consumer
\* that subscribed to that key and did not unsubscribe exactly once, and the
\* callback of no other consumer.
C23_EverySubscriberInvokedOnce ==
    [][\A ev \in PushFrames :
          OnMessage(ev) =>
              \A c \in Consumers :
                  Invoked(last'.deliveries, c) =
                      IF /\ consumer[c].state = "subscribed"
                         /\ consumer[c].subsKey = ev.json.subscription.subsystem
                         /\ ServiceOf(consumer[c].subsKey) = ev.json.subscription.service
                      THEN 1 ELSE 0]_vars

(***************************************************************************)
(* Groups and their flush timers (C24)                                     *)
(***************************************************************************)
\* the armed flush timers of the group key k
TimersOf(ts, k) == {t \in ts : t.req_ident = k}

\* every key of bp has participants and one armed timer, every timer has a group
GroupsMatchTimers(bp, ts) ==
    /\ DOMAIN bp = {t.req_ident : t \in ts}
    /\ \A k \in DOMAIN bp : Len(bp[k]) >= 1 /\ Cardinality(TimersOf(ts, k)) = 1

\* C24: in the housekeeping provider and in the measurements provider, a group is
\* in buffered_promises exactly when a flush timer for its key is armed; a group
\* has at least one participant and exactly one armed timer.
C24_GroupIffTimer ==
    /\ GroupsMatchTimers(buffered_promises, flushTimers)
    /\ GroupsMatchTimers(measBuffered, measTimers)

\* a group of each provider is open, each with its timer
C24_Witness ==
    /\ Cardinality(DOMAIN buffered_promises) = 1
    /\ Cardinality(DOMAIN measBuffered) = 1
    /\ Cardinality(flushTimers) = 1
    /\ Cardinality(measTimers) = 1

(***************************************************************************)
(* Joining an open group (C25)                                             *)
(***************************************************************************)
\* C25: a housekeeping request whose group is open is appended to that group: the
\* earlier participants stay in place and the set of armed timers is as before.
\* The timer of a group is the one armed by the call of its first participant,
\* with the delay of FlushDelayMs, however many participants joined.
C25_JoinKeepsTimer ==
    [][/\ \A k \in DOMAIN buffered_promises :
             (Has(buffered_promises', k) /\ buffered_promises'[k] # buffered_promises[k]) =>
                 /\ Len(buffered_promises'[k]) = Len(buffered_promises[k]) + 1
                 /\ SubSeq(buffered_promises'[k], 1, Len(buffered_promises[k])) = buffered_promises[k]
                 /\ buffered_promises'[k][Len(buffered_promises'[k])].handle = Len(handles')
                 /\ Len(handles') = Len(handles) + 1
                 /\ flushTimers' = flushTimers
       /\ \A t \in flushTimers :
             /\ t.delay = FlushDelayMs
             /\ Has(buffered_promises, t.req_ident)
             /\ t.armedBy = buffered_promises[t.req_ident][1].handle]_vars

\* a second request joined an open group, whose one timer is that of the first
C25_Witness ==
    \E k \in DOMAIN buffered_promises :
        /\ Len(buffered_promises[k]) = 2
        /\ \E t \in flushTimers :
              /\ TimersOf(flushTimers, k) = {t}
              /\ t.armedBy = buffered_promises[k][1].handle
              /\ t.armedBy # buffered_promises[k][2].handle

(***************************************************************************)
(* Every request returns a handle that completes (C26)                     *)
(***************************************************************************)
\* C26 (as claimed): every call of request has returned a handle (a promise that
\* is one of the handles the flush of its group will settle or has settled).
C26_EveryRequestReturnsHandle ==
    \A i \in 1..Len(measReturned) :
        /\ measReturned[i] # NoHandle
        /\ measReturned[i] \in 1..Len(handles)

(***************************************************************************)
(* The backend's subscription set and the consumers' interest (C27)        *)
(***************************************************************************)
\* the keys of service the backend was asked to deliver by the frames w given to
\* socket.send, in order: a subscribe frame adds its keys, an unsubscribe frame
\* removes them
RECURSIVE AskedAfter(_, _, _)
AskedAfter(w, service, acc) ==
    IF w = <<>> THEN acc
    ELSE LET frame == calls[Head(w) + 1].frame
         IN  AskedAfter(Tail(w), service,
                        IF frame.service # service THEN acc
                        ELSE IF frame.method = "subscribe" THEN acc \cup FrameKeys(frame)
                        ELSE IF frame.method = "unsubscribe" THEN acc \ FrameKeys(frame)
                        ELSE acc)

\* the keys of service that some consumer subscribed to and did not unsubscribe
Interest(service) == {k \in AllKeys : ServiceOf(k) = service /\ LiveConsumers(consumer, k) # {}}

\* C27 (as claimed): when the socket is open, the 'open' listener has run and the
\* queue is empty, the keys the backend was asked to deliver are, for every
\* service, the keys with at least one subscribed consumer.
C27_BackendMatchesInterest ==
    (socket = "open" /\ openLog.happened /\ pending = <<>>) =>
        \A service \in Services : AskedAfter(wire, service, {}) = Interest(service)

(***************************************************************************)
(* A key subscribed while the socket connects (C28)                        *)
(***************************************************************************)
\* positions, among the frames the 'open' listener gave to socket.send, of the
\* subscribe frames that name the entry e = (service, key)
SubscribesSent(e) ==
    {i \in 1..Len(openLog.sent) :
        LET frame == calls[openLog.sent[i] + 1].frame
        IN  /\ frame.method = "subscribe"
            /\ frame.service = e[1]
            /\ e[2] \in FrameKeys(frame)}

\* C28 (as claimed): for every key that was subscribed while the socket was
\* connecting and is in the registry when the socket opens, the 'open' listener
\* sends exactly one subscribe frame naming it.
C28_OneSubscribeFramePerKey ==
    openLog.happened =>
        \A e \in Entries(openLog.registry) : Cardinality(SubscribesSent(e)) = 1

(***************************************************************************)
(* Shape of the replay (C29)                                               *)
(***************************************************************************)
\* the keys registered for service when the 'open' listener ran
LiveKeys(service) == {k \in AllKeys : <<service, k>> \in Entries(openLog.registry)}

\* the resubscribe calls the 'open' listener made for service
ReplayOf(service) == {id \in ReplayIds : calls[id + 1].frame.service = service}

\* C29 (as claimed): the 'open' listener sends, for every service with a live key,
\* subscribe frames that carry exactly the live keys of the service, with params
\* of the shape of a fresh subscribe ({fields: ...}); for a service without a
\* live key it sends no subscribe frame.
C29_ReplayShape ==
    openLog.happened =>
        \A service \in Services :
            IF LiveKeys(service) = {}
            THEN ReplayOf(service) = {}
            ELSE /\ ReplayOf(service) # {}
                 /\ UNION {FrameKeys(calls[id + 1].frame) : id \in ReplayOf(service)} = LiveKeys(service)
                 /\ \A id \in ReplayOf(service) : Has(calls[id + 1].frame.params, "fields")

(***************************************************************************)
(* Deadline timers and the pending table (C30)                             *)
(***************************************************************************)
\* C30: the ids whose deadline is armed are the ids of rpc_calls, and they are the
\* ids of the calls that still wait: a call that was resolved, rejected by an
\* error frame or rejected by its deadline has no entry and no armed deadline.
C30_TimersMatchTable ==
    /\ timers = DOMAIN rpc_calls
    /\ \A id \in 0..(Len(calls) - 1) :
          IF calls[id + 1].state = "pending"
          THEN id \in timers
          ELSE id \notin timers /\ ~Has(rpc_calls, id)

\* one call was resolved by its response and has no deadline any more, while a
\* later call waits with its deadline armed
C30_Witness ==
    \E id \in 0..(Len(calls) - 1) :
        /\ calls[id + 1].state = "resolved"
        /\ id \notin timers
        /\ \E other \in (id + 1)..(Len(calls) - 1) :
              /\ calls[other + 1].state = "pending"
              /\ timers = {other}
              /\ DOMAIN rpc_calls = {other}

(***************************************************************************)
(* Entries without consumers (C31)                                         *)
(***************************************************************************)
\* C31 (as claimed): every entry that exists holds at least one callback: every
\* subsystem entry of the housekeeping provider has a field callback, and every
\* service entry of the connector has a key.
C31_NoEmptyEntry ==
    /\ \A subsKey \in DOMAIN hkSubs : DOMAIN hkSubs[subsKey] # {}
    /\ \A service \in DOMAIN subscriptions : DOMAIN subscriptions[service] # {}

(***************************************************************************)
(* The unsubscribe closure (C32)                                           *)
(***************************************************************************)
\* C32 (as claimed): the unsubscribe closure of consumer c takes from no other
\* subscribed consumer the callback a push would reach, and a call of it after
\* the first raises no error, makes no remoteCall and changes neither the
\* registry nor the tables and flags of the providers.
C32_UnsubscribeOwnOnly ==
    [][\A c \in Consumers :
          (HkUnsubscribe(c) \/ EvUnsubscribe(c)) =>
              /\ \A other \in Consumers \ {c} :
                    (consumer[other].state = "subscribed"
                        /\ Served(subscriptions, hkSubs, consumer, other))
                        => Served(subscriptions', hkSubs', consumer', other)
              /\ consumer[c].state = "done" =>
                    /\ ~last'.threw
                    /\ calls' = calls
                    /\ subscriptions' = subscriptions
                    /\ hkSubs' = hkSubs
                    /\ subscribed' = subscribed]_vars

(***************************************************************************)
(* Frames of calls that are over (C33)                                     *)
(***************************************************************************)
\* C33 (as claimed): a frame is given to socket.send only for a call that is in
\* rpc_calls when the handler that sends it ends; the frame of a queued call that
\* its deadline has rejected is not sent by the 'open' listener.
C33_SentFramesArePending ==
    [][\A id \in 0..(Len(calls') - 1) :
          TimesSent(wire', id) > TimesSent(wire, id) => Has(rpc_calls', id)]_vars

(***************************************************************************)
(* Calls made after the close (C34)                                        *)
(***************************************************************************)
\* the calls made by this step, as indices of calls'
MadeNow == (Len(calls) + 1)..Len(calls')

\* C34: after the 'close' listener has run, a remoteCall returns a promise that
\* is rejected already; nothing is sent or queued and rpc_calls and the deadlines
\* are as before. Connector.subscribe and Connector.unsubscribe made in that
\* state raise no error and leave the key in, respectively out of, the registry.
C34_CallAfterClose ==
    [][socket = "null" =>
          /\ wire' = wire
          /\ pending' = pending
          /\ rpc_calls' = rpc_calls
          /\ timers' = timers
          /\ \A i \in MadeNow :
                /\ calls'[i].state = "rejected"
                /\ calls'[i].reason = TypeError
                /\ calls'[i].route = "none"
                /\ ~last'.threw
                /\ Has(subscriptions', calls'[i].frame.service)
                /\ \A k \in FrameKeys(calls'[i].frame) :
                      Has(subscriptions'[calls'[i].frame.service], k)
                          <=> calls'[i].frame.method = "subscribe"]_vars

\* after the close a subscribe and an unsubscribe were made: both calls are
\* rejected, one key is registered and the queue and rpc_calls are empty
C34_Witness ==
    /\ socket = "null"
    /\ \E i, j \in 1..Len(calls) :
          /\ calls[i].route = "none" /\ calls[i].frame.method = "subscribe"
          /\ calls[j].route = "none" /\ calls[j].frame.method = "unsubscribe"
          /\ calls[i].state = "rejected" /\ calls[j].state = "rejected"
    /\ LiveEntries(subscriptions) = 1
    /\ pending = <<>>
    /\ DOMAIN rpc_calls = {}

GroupChanged(k) ==
    \/ Has(buffered_promises, k) # Has(buffered_promises', k)
    \/ /\ Has(buffered_promises, k)
       /\ Has(buffered_promises', k)
       /\ buffered_promises'[k] # buffered_promises[k]

\* C36: a step that creates, extends or flushes one group leaves every other open
\* group with its participants and its timer; the flush of a group makes one
\* call, whose participants are those of the group; and the result of a call
\* settles the handles of its own participants and no other handle.
C36_GroupsIndependent ==
    [][/\ \A k \in DOMAIN buffered_promises \cup DOMAIN buffered_promises' :
             GroupChanged(k) =>
                 /\ \A other \in DOMAIN buffered_promises \ {k} :
                       /\ Has(buffered_promises', other)
                       /\ buffered_promises'[other] = buffered_promises[other]
                       /\ TimersOf(flushTimers', other) = TimersOf(flushTimers, other)
                 /\ (Has(buffered_promises, k) /\ ~Has(buffered_promises', k)) =>
                       /\ MadeNow = {Len(calls')}
                       /\ calls'[Len(calls')].cont.promises = buffered_promises[k]
       /\ \A i \in RequestCalls :
             (calls[i].state = "pending" /\ calls'[i].state # "pending") =>
                 /\ \A h \in (1..Len(handles)) \ Participants(i) : handles'[h] = handles[h]
                 /\ \A h \in Participants(i) : handles'[h].state = calls'[i].state]_vars

\* two groups with different keys were flushed; the call of one was answered and
\* resolved its participant, while the participant of the other still waits
C36_Witness ==
    \E i, j \in RequestCalls :
        /\ i # j
        /\ ReqIdent(calls[i].cont.subsKey, handles[calls[i].cont.promises[1].handle].options)
              # ReqIdent(calls[j].cont.subsKey, handles[calls[j].cont.promises[1].handle].options)
        /\ calls[i].state = "resolved"
        /\ calls[j].state = "pending"
        /\ \A h \in Participants(i) : handles[h].state = "resolved"
        /\ \A h \in Participants(j) : handles[h].state = "pending"

(***************************************************************************)
(* The schema cache (C37)                                                  *)
(***************************************************************************)
\* C37 (as claimed): at most one get_schema call is ever made; every call of
\* getSchema has returned a handle; once the schema is cached, every handle
\* returned resolves to that schema (a Promise.resolve of it, or the stored
\* promise, resolved by the reaction that cached it); and the cached schema
\* never changes.
C37_OneCallEveryHandle ==
    [][/\ Cardinality({i \in 1..Len(calls') : calls'[i].frame.method = "get_schema"}) <= 1
       /\ \A i \in 1..Len(schemaReturned') : schemaReturned'[i] # ReturnedNothing
       /\ schema' # Null =>
             /\ \A i \in 1..Len(schemaReturned') :
                   schemaReturned'[i].kind = "resolved" => schemaReturned'[i].value = schema'
             /\ schemaPromise' # NoId
             /\ calls'[schemaPromise' + 1].state = "resolved"
       /\ schema # Null => schema' = schema]_vars

====
